---- MODULE Spec2Model ----
(***************************************************************************)
(* The agentic sampling loop of computer_use_demo/loop.py, its history     *)
(* pruner and the Venice adapter of computer_use_demo/venice_adapter.py,   *)
(* as state machines.                                                      *)
(*                                                                         *)
(* Spec         one run of sampling_loop, one step per statement group     *)
(* SpecPrune    _maybe_filter_to_n_most_recent_images applied to histories *)
(*              drawn from a bounded family                                *)
(* SpecAdapter  VeniceClient.create applied to histories and HTTP          *)
(*              exchanges drawn from a bounded family                      *)
(* SpecResult   _make_api_tool_result applied to tool results with texts   *)
(*              of lengths around truncate_string's maximum                *)
(***************************************************************************)
EXTENDS Integers, Sequences, FiniteSets, TLC

VARIABLES
    messages,             \* the caller's list, mutated in place (loop.py:104)
    only_n,               \* only_n_most_recent_images (loop.py:109)
    pc,                   \* position inside sampling_loop / the pruner harness
    response,             \* response.content of the current round (loop.py:175)
    idx,                  \* index of the content_block being visited (loop.py:202)
    tool_result_content,  \* loop.py:201
    events,               \* callbacks and tool runs of the current round, in order
    rounds,               \* iterations of `while True` started so far
    apiCalls,             \* provider calls issued so far
    toolRuns,             \* tool_collection.run calls issued so far
    blocksSent,           \* content blocks the provider has sent so far
    sent,                 \* the messages of the latest provider request (loop.py:145)
    nInitial,             \* how many messages the caller handed over
    retval,               \* what sampling_loop returned, if it did
    before,               \* the history before the latest prune call
    keepArg,              \* SpecPrune: images_to_keep
    chunkArg,             \* SpecPrune: min_removal_threshold
    pruneCalls,           \* SpecPrune: prune calls made
    removedSoFar,         \* SpecPrune: images removed by all calls so far
    provider,             \* the APIProvider of the run (loop.py:103)
    callArg,              \* SpecAdapter, SpecResult: the arguments of the call
    callOut               \* SpecAdapter, SpecResult: what the call came back with

vars == <<messages, only_n, pc, response, idx, tool_result_content, events, rounds,
          apiCalls, toolRuns, blocksSent, sent, nInitial, retval,
          before, keepArg, chunkArg, pruneCalls, removedSoFar,
          provider, callArg, callOut>>

loopVars == <<only_n, response, idx, tool_result_content, events, rounds,
              apiCalls, toolRuns, blocksSent, sent, nInitial, retval>>

pruneVars == <<keepArg, chunkArg, pruneCalls, removedSoFar>>

callVars == <<provider, callArg, callOut>>

----------------------------------------------------------------------------
(* Bounds of the model *)

MaxBlocks == 3       \* content blocks the provider sends over one run
MaxHistLen == 3      \* SpecPrune: messages in a drawn history
MaxSingles == 25     \* SpecPrune: longest history of single-image results
MaxKeep == 5         \* SpecPrune: largest images_to_keep
MaxChunk == 3        \* SpecPrune: largest min_removal_threshold besides the default
MaxPrunes == 2       \* SpecPrune: consecutive prune calls
MaxOver == 1000      \* SpecResult: how far the longest text exceeds the maximum

(* Program constants *)

DefaultChunk == 10   \* min_removal_threshold's default
TruncateAt == 4000   \* truncate_string's max_length default

----------------------------------------------------------------------------
(* Content blocks.  Text is a sequence of characters. *)

TextBlock(t) == [type |-> "text", text |-> t]

ImageBlock(d) == [type |-> "image", data |-> d]

ToolUseBlock(id, name) == [type |-> "tool_use", id |-> id, name |-> name]

\* a content block of a parsed reply: a pydantic object read by attribute
\* (loop.py:204), where the blocks of the *Param types are dicts
BetaTextBlock(t) == [type |-> "text", text |-> t, model |-> "BetaTextBlock"]

BetaToolUseBlock(id, name) ==
    [type |-> "tool_use", id |-> id, name |-> name, model |-> "BetaToolUseBlock"]

\* isinstance(block, dict)
IsDict(block) == "model" \notin DOMAIN block

\* the content of a tool_result is a list of blocks or, for an error, a str
ListContent(items) == [isList |-> TRUE, items |-> items, str |-> <<>>]

StrContent(s) == [isList |-> FALSE, items |-> <<>>, str |-> s]

Message(role, content) == [role |-> role, content |-> content]

----------------------------------------------------------------------------
(* The pruner: _maybe_filter_to_n_most_recent_images *)

RECURSIVE SeqSum(_)
SeqSum(s) == IF s = <<>> THEN 0 ELSE Head(s) + SeqSum(Tail(s))

RECURSIVE Flatten(_)
Flatten(ss) == IF ss = <<>> THEN <<>> ELSE Head(ss) \o Flatten(Tail(ss))

IsImage(c) == c.type = "image"

\* loop.py:242
IsToolResult(item) == IsDict(item) /\ item.type = "tool_result"

\* loop.py:234-244: the tool_result blocks of all messages, in order
ToolResultBlocks(msgs) ==
    Flatten([m \in 1..Len(msgs) |-> SelectSeq(msgs[m].content, IsToolResult)])

\* loop.py:249-250: iterating a str content yields characters, never an image dict
ImagesOf(tool_result) ==
    IF tool_result.content.isList
    THEN SelectSeq(tool_result.content.items, IsImage)
    ELSE <<>>

\* image blocks counted wherever they sit, not only inside tool results
TotalImagesAnywhere(msgs) ==
    SeqSum([m \in 1..Len(msgs) |-> Len(SelectSeq(msgs[m].content, IsImage))])
        + SeqSum([b \in 1..Len(ToolResultBlocks(msgs)) |->
                     Len(ImagesOf(ToolResultBlocks(msgs)[b]))])

\* loop.py:246-251
TotalImages(msgs) ==
    LET blocks == ToolResultBlocks(msgs)
    IN  SeqSum([b \in 1..Len(blocks) |-> Len(ImagesOf(blocks[b]))])

\* `=` written for `-=` at loop.py:255
ImagesToRemoveAssignsRemainder(total_images, images_to_keep, min_removal_threshold) ==
    (total_images - images_to_keep) % min_removal_threshold

\* loop.py:253-255; % is Python's, the sign of the divisor
ImagesToRemove(total_images, images_to_keep, min_removal_threshold) ==
    LET images_to_remove == total_images - images_to_keep
    IN  images_to_remove - (images_to_remove % min_removal_threshold)

\* `>= 0` written for `> 0` at loop.py:262
ShouldDropOffByOne(images_to_remove) == images_to_remove >= 0

\* the guard of loop.py:262 left out
ShouldDropAlways(images_to_remove) == TRUE

\* loop.py:262
ShouldDrop(images_to_remove) == images_to_remove > 0

\* the append of loop.py:265 sits inside the image test of loop.py:261
RECURSIVE FilterContentKeepsImagesOnly(_, _)
FilterContentKeepsImagesOnly(items, images_to_remove) ==
    IF items = <<>>
    THEN [out |-> <<>>, left |-> images_to_remove]
    ELSE LET content == Head(items)
         IN  IF IsImage(content) /\ ShouldDrop(images_to_remove)
             THEN FilterContentKeepsImagesOnly(Tail(items), images_to_remove - 1)
             ELSE LET r == FilterContentKeepsImagesOnly(Tail(items), images_to_remove)
                  IN  [out |-> (IF IsImage(content) THEN <<content>> ELSE <<>>) \o r.out,
                       left |-> r.left]

\* loop.py:259-265: new_content of one tool_result and the counter left over
RECURSIVE FilterContent(_, _)
FilterContent(items, images_to_remove) ==
    IF items = <<>>
    THEN [out |-> <<>>, left |-> images_to_remove]
    ELSE LET content == Head(items)
         IN  IF IsImage(content) /\ ShouldDrop(images_to_remove)
             THEN FilterContent(Tail(items), images_to_remove - 1)
             ELSE LET r == FilterContent(Tail(items), images_to_remove)
                  IN  [out |-> <<content>> \o r.out, left |-> r.left]

\* loop.py:257-266 over the blocks of one message; other blocks are not visited
RECURSIVE FilterItems(_, _)
FilterItems(items, images_to_remove) ==
    IF items = <<>>
    THEN [out |-> <<>>, left |-> images_to_remove]
    ELSE LET item == Head(items)
         IN  IF IsToolResult(item) /\ item.content.isList
             THEN LET f == FilterContent(item.content.items, images_to_remove)
                      r == FilterItems(Tail(items), f.left)
                  IN  [out |-> <<[item EXCEPT !.content = ListContent(f.out)]>> \o r.out,
                       left |-> r.left]
             ELSE LET r == FilterItems(Tail(items), images_to_remove)
                  IN  [out |-> <<item>> \o r.out, left |-> r.left]

\* loop.py:257-266 over all messages
RECURSIVE FilterMessages(_, _)
FilterMessages(msgs, images_to_remove) ==
    IF msgs = <<>>
    THEN <<>>
    ELSE LET f == FilterItems(Head(msgs).content, images_to_remove)
         IN  <<[Head(msgs) EXCEPT !.content = f.out]>>
                 \o FilterMessages(Tail(msgs), f.left)

\* an int | None argument
None == [set |-> FALSE, n |-> 0]

IntArg(n) == [set |-> TRUE, n |-> n]

\* loop.py:220-266
_maybe_filter_to_n_most_recent_images(msgs, images_to_keep, min_removal_threshold) ==
    IF ~images_to_keep.set
    THEN msgs
    ELSE FilterMessages(msgs,
             ImagesToRemove(TotalImages(msgs), images_to_keep.n, min_removal_threshold))

----------------------------------------------------------------------------
(* Tool results: truncate_string, _maybe_prepend_system_tool_result,       *)
(* _make_api_tool_result                                                   *)

TruncatedMarker ==
    <<".", ".", ".", " ", "[", "t", "r", "u", "n", "c", "a", "t", "e", "d", "]">>

SystemOpen == <<"<", "s", "y", "s", "t", "e", "m", ">">>

SystemClose == <<"<", "/", "s", "y", "s", "t", "e", "m", ">", "\n">>

\* a text of exactly max_length characters is cut as well
TruncateFromMaxLength(s, max_length) ==
    IF Len(s) < max_length THEN s ELSE SubSeq(s, 1, max_length) \o TruncatedMarker

\* loop.py:17-18
truncate_string(s, max_length) ==
    IF Len(s) <= max_length THEN s ELSE SubSeq(s, 1, max_length) \o TruncatedMarker

\* a ToolResult of the tools package: each field a str or None (<<>>), the image
\* a base64 payload or None (0)
ToolResult(output, error, base64_image, system) ==
    [output |-> output, error |-> error, base64_image |-> base64_image, system |-> system]

\* loop.py:305-308
_maybe_prepend_system_tool_result(result, result_text) ==
    truncate_string(
        IF result.system # <<>>
        THEN SystemOpen \o result.system \o SystemClose \o result_text
        ELSE result_text,
        TruncateAt)

\* the error text goes out bare, without the <system> prefix
ResultContentBareError(result) ==
    IF result.error # <<>>
    THEN [is_error |-> TRUE, content |-> StrContent(truncate_string(result.error, TruncateAt))]
    ELSE [is_error |-> FALSE,
          content |-> ListContent(
              (IF result.output # <<>>
               THEN <<TextBlock(_maybe_prepend_system_tool_result(result, result.output))>>
               ELSE <<>>)
              \o (IF result.base64_image # 0
                  THEN <<ImageBlock(result.base64_image)>>
                  ELSE <<>>))]

\* the image of a failed run is kept, behind the error text
ResultContentErrorKeepsImage(result) ==
    IF result.error # <<>>
    THEN [is_error |-> TRUE,
          content |-> ListContent(
              <<TextBlock(_maybe_prepend_system_tool_result(result, result.error))>>
              \o (IF result.base64_image # 0
                  THEN <<ImageBlock(result.base64_image)>>
                  ELSE <<>>))]
    ELSE [is_error |-> FALSE,
          content |-> ListContent(
              (IF result.output # <<>>
               THEN <<TextBlock(_maybe_prepend_system_tool_result(result, result.output))>>
               ELSE <<>>)
              \o (IF result.base64_image # 0
                  THEN <<ImageBlock(result.base64_image)>>
                  ELSE <<>>))]

\* loop.py:273-296: the content and the is_error flag
ResultContent(result) ==
    IF result.error # <<>>
    THEN [is_error |-> TRUE,
          content |-> StrContent(_maybe_prepend_system_tool_result(result, result.error))]
    ELSE [is_error |-> FALSE,
          content |-> ListContent(
              (IF result.output # <<>>
               THEN <<TextBlock(_maybe_prepend_system_tool_result(result, result.output))>>
               ELSE <<>>)
              \o (IF result.base64_image # 0
                  THEN <<ImageBlock(result.base64_image)>>
                  ELSE <<>>))]

\* the block is built without the id it answers
MakeResultWithoutId(result, tool_use_id) ==
    [type |-> "tool_result",
     content |-> ResultContent(result).content,
     tool_use_id |-> 0,
     is_error |-> ResultContent(result).is_error]

\* is_error left at its initial False
MakeResultNeverError(result, tool_use_id) ==
    [type |-> "tool_result",
     content |-> ResultContent(result).content,
     tool_use_id |-> tool_use_id,
     is_error |-> FALSE]

\* loop.py:269-302
_make_api_tool_result(result, tool_use_id) ==
    [type |-> "tool_result",
     content |-> ResultContent(result).content,
     tool_use_id |-> tool_use_id,
     is_error |-> ResultContent(result).is_error]

----------------------------------------------------------------------------
(* Messages of the kinds a history holds *)

HistKinds == {"UI", "AU", "R0", "R1", "R2", "RE", "RR"}

\* one message of the given kind at position m; image data are unique per position
MsgOfKind(kind, m) ==
    CASE kind = "UI" -> Message("user", <<ImageBlock(10 * m), TextBlock(<<"q">>)>>)
      [] kind = "AU" -> Message("assistant",
                            <<TextBlock(<<"t">>), ToolUseBlock(m, "computer")>>)
      [] kind = "R0" -> Message("user",
                            <<[type |-> "tool_result", tool_use_id |-> m, is_error |-> FALSE,
                               content |-> ListContent(<<TextBlock(<<"o">>)>>)]>>)
      [] kind = "R1" -> Message("user",
                            <<[type |-> "tool_result", tool_use_id |-> m, is_error |-> FALSE,
                               content |-> ListContent(<<TextBlock(<<"o">>),
                                                         ImageBlock(10 * m)>>)]>>)
      [] kind = "R2" -> Message("user",
                            <<[type |-> "tool_result", tool_use_id |-> m, is_error |-> FALSE,
                               content |-> ListContent(<<ImageBlock(10 * m), TextBlock(<<"o">>),
                                                         ImageBlock(10 * m + 1)>>)]>>)
      [] kind = "RE" -> Message("user",
                            <<[type |-> "tool_result", tool_use_id |-> m, is_error |-> TRUE,
                               content |-> StrContent(<<"e">>)]>>)
      [] kind = "RR" -> Message("user",
                            <<[type |-> "tool_result", tool_use_id |-> m, is_error |-> FALSE,
                               content |-> ListContent(<<ImageBlock(10 * m)>>)],
                              [type |-> "tool_result", tool_use_id |-> m + 100,
                               is_error |-> FALSE,
                               content |-> ListContent(<<ImageBlock(10 * m + 1)>>)]>>)
      [] kind = "AO" -> Message("assistant", <<BetaTextBlock(<<"t">>)>>)
      [] kind = "UT" -> Message("user", <<TextBlock(<<"a">>), TextBlock(<<"b", "c">>)>>)

----------------------------------------------------------------------------
(* VeniceClient of venice_adapter.py *)

\* venice_adapter.py:112-127, the branch of a list content
_extract_text_from_content(content_blocks) ==
    Flatten([i \in 1..Len(content_blocks) |->
        IF IsDict(content_blocks[i]) /\ content_blocks[i].type = "text"
        THEN content_blocks[i].text
        ELSE <<>>])

WireMessage(role, content) == [role |-> role, content |-> content]

\* venice_adapter.py:76-110
_convert_messages(msgs, system) ==
    (IF system # <<>> THEN <<WireMessage("system", system)>> ELSE <<>>)
        \o [i \in 1..Len(msgs) |->
               WireMessage(msgs[i].role, _extract_text_from_content(msgs[i].content))]

\* the JSON object of a chat-completion reply; a key the object lacks has its has-flag off
NoMessage == [hasContent |-> FALSE, content |-> <<>>, tool_calls |-> <<>>]

ChoiceWith(hasMessage, message) == [hasMessage |-> hasMessage, message |-> message]

Payload(hasChoices, choices) == [hasChoices |-> hasChoices, choices |-> choices]

\* the outcome of create: a BetaMessage or the exception that leaves it
Reply(content) == [kind |-> "reply", role |-> "assistant", content |-> content,
                   stop_reason |-> "end_turn"]

Raised(exception) == [kind |-> exception, role |-> "", content |-> <<>>, stop_reason |-> ""]

\* a function call of the reply becomes a tool_use block
ConvertResponseWithToolCalls(venice_response) ==
    LET choices == IF venice_response.hasChoices
                   THEN venice_response.choices
                   ELSE <<ChoiceWith(FALSE, NoMessage)>>
    IN  IF choices = <<>>
        THEN Raised("IndexError")
        ELSE LET message == IF choices[1].hasMessage THEN choices[1].message ELSE NoMessage
                 assistant_content == IF message.hasContent THEN message.content ELSE <<>>
             IN  Reply(<<BetaTextBlock(assistant_content)>>
                       \o [k \in 1..Len(message.tool_calls) |->
                              BetaToolUseBlock(message.tool_calls[k].id,
                                               message.tool_calls[k].name)])

\* venice_adapter.py:133-181
_convert_response(venice_response) ==
    LET choices == IF venice_response.hasChoices
                   THEN venice_response.choices
                   ELSE <<ChoiceWith(FALSE, NoMessage)>>
    IN  IF choices = <<>>
        THEN Raised("IndexError")
        ELSE LET message == IF choices[1].hasMessage THEN choices[1].message ELSE NoMessage
                 assistant_content == IF message.hasContent THEN message.content ELSE <<>>
             IN  Reply(<<BetaTextBlock(assistant_content)>>)

\* what the HTTP exchange of requests.post comes to
Transport(net, status, json, body) ==
    [net |-> net, status |-> status, json |-> json, body |-> body]

\* venice_adapter.py:62-74, after the request has been built
create(transport) ==
    IF transport.net # "ok" \/ transport.status \notin 200..299
    THEN Raised("RuntimeError")
    ELSE IF ~transport.json
         THEN Raised("JSONDecodeError")
         ELSE _convert_response(transport.body)

\* the text of a reply: empty, plain, or one that reads like a function call
ReplyTexts == {<<>>, <<"t">>, <<"{", "}">>}

\* the function calls of a reply message: none, or one with the backend's id
ToolCalls == {<<>>, <<[id |-> 7, name |-> "computer"]>>}

ReplyMessages ==
    {[hasContent |-> TRUE, content |-> c, tool_calls |-> tc] :
         c \in ReplyTexts, tc \in ToolCalls}
    \cup {[hasContent |-> FALSE, content |-> <<>>, tool_calls |-> tc] : tc \in ToolCalls}

Payloads ==
    {Payload(FALSE, <<>>), Payload(TRUE, <<>>), Payload(TRUE, <<ChoiceWith(FALSE, NoMessage)>>)}
    \cup {Payload(TRUE, <<ChoiceWith(TRUE, m)>>) : m \in ReplyMessages}

Transports ==
    {Transport("ConnectionError", 0, FALSE, Payload(FALSE, <<>>)),
     Transport("ok", 500, FALSE, Payload(FALSE, <<>>)),
     Transport("ok", 200, FALSE, Payload(FALSE, <<>>))}
    \cup {Transport("ok", 200, TRUE, p) : p \in Payloads}

----------------------------------------------------------------------------
(* Spec: one run of sampling_loop *)

\* sampling_loop has not returned
NotReturned == [returned |-> FALSE, value |-> <<>>]

Returned(v) == [returned |-> TRUE, value |-> v]

IsToolUse(block) == block.type = "tool_use"

BlockTypes == {"text", "tool_use"}

\* the provider gives every tool_use block an id of its own: call number, position
ToolUseId(call, i) == 1000 * call + i

\* the reply of provider call number `call` with blocks of the given types
ReplyOfShape(shape, call) ==
    [i \in 1..Len(shape) |->
        IF shape[i] = "text"
        THEN BetaTextBlock(<<"t">>)
        ELSE BetaToolUseBlock(ToolUseId(call, i), "computer")]

ReplyShapes(n) == [1..n -> BlockTypes]

\* what a tool run can come back with; run number r makes the screenshot unique
Outcomes(r) ==
    { ToolResult(<<"o">>, <<>>, 0, <<>>),
      ToolResult(<<>>, <<"e">>, 0, <<>>),
      ToolResult(<<>>, <<>>, 1000 + r, <<>>),
      ToolResult(<<>>, <<>>, 0, <<>>),
      ToolResult(<<"o">>, <<"e">>, 1000 + r, <<"s">>) }

\* the conversation the caller hands over: a prompt with a picture and n earlier
\* screenshot rounds
PriorRounds == {0, 10}

InitialMessages(n) ==
    <<MsgOfKind("UI", 0)>>
        \o Flatten([m \in 1..n |-> <<MsgOfKind("AU", m), MsgOfKind("R1", m)>>])

KeepOptions == {None, IntArg(0), IntArg(1)}

\* loop.py:140-171: the three providers of the Anthropic API take one branch each to
\* the same call; Venice goes through VeniceClient
Providers == {"anthropic", "venice"}

\* Python truthiness of an int | None (loop.py:125)
Truthy(v) == v.set /\ v.n # 0

NoResult == ToolResult(<<>>, <<>>, 0, <<>>)

\* no call under test
NoCall == [kind |-> "none"]

Event(ev, i, id, result) == [ev |-> ev, i |-> i, id |-> id, result |-> result]

Init ==
    /\ messages \in {InitialMessages(n) : n \in PriorRounds}
    /\ only_n \in KeepOptions
    /\ pc = "prune"
    /\ response = <<>>
    /\ idx = 0
    /\ tool_result_content = <<>>
    /\ events = <<>>
    /\ rounds = 0
    /\ apiCalls = 0
    /\ toolRuns = 0
    /\ blocksSent = 0
    /\ sent = <<>>
    /\ nInitial = Len(messages)
    /\ retval = NotReturned
    /\ before = messages
    /\ keepArg = 0
    /\ chunkArg = DefaultChunk
    /\ pruneCalls = 0
    /\ removedSoFar = 0
    /\ provider \in Providers
    /\ callArg = NoCall
    /\ callOut = NoCall

\* loop.py:124-126: the top of `while True`
StartRound ==
    /\ pc = "prune"
    /\ rounds' = rounds + 1
    /\ messages' = IF Truthy(only_n)
                   THEN _maybe_filter_to_n_most_recent_images(messages, only_n, DefaultChunk)
                   ELSE messages
    /\ before' = messages
    /\ pc' = "call"
    /\ UNCHANGED <<only_n, response, idx, tool_result_content, events, apiCalls, toolRuns,
                   blocksSent, sent, nInitial, retval>>
    /\ UNCHANGED <<pruneVars, callVars>>

\* loop.py:139-201: the provider answers; the reply becomes the assistant message
CallOk ==
    /\ pc = "call"
    /\ provider # "venice"
    /\ \E n \in 0..(MaxBlocks - blocksSent) :
        \E shape \in ReplyShapes(n) :
            LET reply == ReplyOfShape(shape, apiCalls + 1)
            IN  /\ response' = reply
                /\ messages' = Append(messages, Message("assistant", reply))
                /\ blocksSent' = blocksSent + n
    /\ apiCalls' = apiCalls + 1
    /\ sent' = messages
    /\ tool_result_content' = <<>>
    /\ idx' = 1
    /\ events' = <<>>
    /\ pc' = "block"
    /\ UNCHANGED <<only_n, rounds, toolRuns, nInitial, retval, before>>
    /\ UNCHANGED <<pruneVars, callVars>>

\* loop.py:169-201: VeniceClient.create answers; its reply becomes the assistant message
CallVenice ==
    /\ pc = "call"
    /\ provider = "venice"
    /\ blocksSent < MaxBlocks
    /\ \E transport \in Transports :
        LET reply == create(transport)
        IN  /\ reply.kind = "reply"
            /\ response' = reply.content
            /\ messages' = Append(messages, Message("assistant", reply.content))
            /\ blocksSent' = blocksSent + Len(reply.content)
    /\ apiCalls' = apiCalls + 1
    /\ sent' = messages
    /\ tool_result_content' = <<>>
    /\ idx' = 1
    /\ events' = <<>>
    /\ pc' = "block"
    /\ UNCHANGED <<only_n, rounds, toolRuns, nInitial, retval, before>>
    /\ UNCHANGED <<pruneVars, callVars>>

\* the assistant message is appended before the failure of the call surfaces
CallFailAfterAppend ==
    /\ pc = "call"
    /\ apiCalls' = apiCalls + 1
    /\ sent' = messages
    /\ messages' = Append(messages, Message("assistant", <<>>))
    /\ pc' = "raised"
    /\ UNCHANGED <<only_n, response, idx, tool_result_content, events, rounds,
                   toolRuns, blocksSent, nInitial, retval, before>>
    /\ UNCHANGED <<pruneVars, callVars>>

\* loop.py:139-175: the provider call raises and the exception leaves sampling_loop
CallFail ==
    /\ pc = "call"
    /\ apiCalls' = apiCalls + 1
    /\ sent' = messages
    /\ pc' = "raised"
    /\ UNCHANGED <<messages, only_n, response, idx, tool_result_content, events, rounds,
                   toolRuns, blocksSent, nInitial, retval, before>>
    /\ UNCHANGED <<pruneVars, callVars>>

\* output_callback is kept for the text blocks
VisitBlockSilentOnToolUse ==
    /\ pc = "block"
    /\ idx <= Len(response)
    /\ IF IsToolUse(response[idx])
       THEN pc' = "run" /\ idx' = idx /\ UNCHANGED events
       ELSE /\ pc' = "block"
            /\ idx' = idx + 1
            /\ events' = Append(events, Event("output_callback", idx, 0, NoResult))
    /\ UNCHANGED <<messages, only_n, response, tool_result_content, rounds, apiCalls,
                   toolRuns, blocksSent, sent, nInitial, retval, before>>
    /\ UNCHANGED <<pruneVars, callVars>>

\* loop.py:202-204: output_callback on the next content block
VisitBlock ==
    /\ pc = "block"
    /\ idx <= Len(response)
    /\ events' = Append(events, Event("output_callback", idx, 0, NoResult))
    /\ IF IsToolUse(response[idx])
       THEN pc' = "run" /\ idx' = idx
       ELSE pc' = "block" /\ idx' = idx + 1
    /\ UNCHANGED <<messages, only_n, response, tool_result_content, rounds, apiCalls,
                   toolRuns, blocksSent, sent, nInitial, retval, before>>
    /\ UNCHANGED <<pruneVars, callVars>>

\* the new result goes to the front of the list
CollectAtFront(results, result) == <<result>> \o results

\* loop.py:209-211
Collect(results, result) == Append(results, result)

\* the test looks at what the results carry, not at whether there are any
NothingCarried(results) ==
    \A k \in 1..Len(results) :
        results[k].content.items = <<>> /\ results[k].content.str = <<>>

\* loop.py:214
NoResults(results) == results = <<>>

\* tool_output_callback is kept for the runs that came back without error
ToolEventsSilentOnError(i, id, result) ==
    <<Event("run", i, id, result)>>
        \o (IF result.error # <<>>
            THEN <<>>
            ELSE <<Event("tool_output_callback", i, id, result)>>)

\* loop.py:205-212: the run that came back with `result`, then tool_output_callback
ToolEvents(i, id, result) ==
    <<Event("run", i, id, result), Event("tool_output_callback", i, id, result)>>

\* loop.py:205-212: the tool runs, its result is collected, tool_output_callback fires
RunTool ==
    /\ pc = "run"
    /\ \E result \in Outcomes(toolRuns + 1) :
        /\ tool_result_content' =
               Collect(tool_result_content, _make_api_tool_result(result, response[idx].id))
        /\ events' = events \o ToolEvents(idx, response[idx].id, result)
    /\ toolRuns' = toolRuns + 1
    /\ idx' = idx + 1
    /\ pc' = "block"
    /\ UNCHANGED <<messages, only_n, response, rounds, apiCalls, blocksSent, sent,
                   nInitial, retval, before>>
    /\ UNCHANGED <<pruneVars, callVars>>

\* loop.py:214-217: return, or append the user message and go round again
EndRound ==
    /\ pc = "block"
    /\ idx > Len(response)
    /\ IF NoResults(tool_result_content)
       THEN /\ retval' = Returned(messages)
            /\ pc' = "done"
            /\ UNCHANGED messages
       ELSE /\ messages' = Append(messages, Message("user", tool_result_content))
            /\ pc' = "prune"
            /\ UNCHANGED retval
    /\ UNCHANGED <<only_n, response, idx, tool_result_content, events, rounds, apiCalls,
                   toolRuns, blocksSent, sent, nInitial, before>>
    /\ UNCHANGED <<pruneVars, callVars>>

Next ==
    StartRound \/ CallOk \/ CallVenice \/ CallFail \/ VisitBlock \/ RunTool \/ EndRound

Spec == Init /\ [][Next]_vars

----------------------------------------------------------------------------
(* SpecAdapter: VeniceClient.create on histories, system prompts and HTTP   *)
(* exchanges drawn from a bounded family                                    *)

AdapterKinds == {"UI", "AU", "R1", "RE", "AO", "UT"}

AdapterHistories ==
    UNION {{[m \in 1..n |-> MsgOfKind(shape[m], m)] : shape \in [1..n -> AdapterKinds]} :
              n \in 0..MaxHistLen}

\* the system prompt of the call: none, or a text
Systems == {<<>>, <<"S">>}

InitAdapter ==
    /\ messages \in AdapterHistories
    /\ callArg \in {[kind |-> "create", system |-> s, transport |-> t] :
                        s \in Systems, t \in Transports}
    /\ callOut = NoCall
    /\ provider = "venice"
    /\ pc = "create_in"
    /\ only_n = None
    /\ response = <<>>
    /\ idx = 0
    /\ tool_result_content = <<>>
    /\ events = <<>>
    /\ rounds = 0
    /\ apiCalls = 0
    /\ toolRuns = 0
    /\ blocksSent = 0
    /\ sent = <<>>
    /\ nInitial = Len(messages)
    /\ retval = NotReturned
    /\ before = messages
    /\ keepArg = 0
    /\ chunkArg = DefaultChunk
    /\ pruneCalls = 0
    /\ removedSoFar = 0

\* venice_adapter.py:32-74: one call create(messages, system, tools)
Create ==
    /\ pc = "create_in"
    /\ sent' = _convert_messages(messages, callArg.system)
    /\ callOut' = create(callArg.transport)
    /\ apiCalls' = apiCalls + 1
    /\ pc' = "create_out"
    /\ UNCHANGED <<messages, only_n, response, idx, tool_result_content, events, rounds,
                   toolRuns, blocksSent, nInitial, retval, before, provider, callArg>>
    /\ UNCHANGED pruneVars

NextAdapter == Create

SpecAdapter == InitAdapter /\ [][NextAdapter]_vars

----------------------------------------------------------------------------
(* SpecPrune: histories the pruner is applied to *)

HistOfShape(shape) == [m \in 1..Len(shape) |-> MsgOfKind(shape[m], m)]

Shapes == UNION {[1..n -> HistKinds] : n \in 0..MaxHistLen}

\* n tool results with one image each
Singles(n) == [m \in 1..n |-> MsgOfKind("R1", m)]

PruneHistories ==
    {HistOfShape(s) : s \in Shapes} \cup {Singles(n) : n \in (MaxHistLen + 1)..MaxSingles}

Chunks == (1..MaxChunk) \cup {DefaultChunk}

\* the images inside tool results, in chronological order
ResultImages(msgs) ==
    LET blocks == ToolResultBlocks(msgs)
    IN  Flatten([b \in 1..Len(blocks) |-> ImagesOf(blocks[b])])

InitPrune ==
    /\ messages \in PruneHistories
    /\ keepArg \in 0..MaxKeep
    /\ chunkArg \in Chunks
    /\ before = messages
    /\ pruneCalls = 0
    /\ removedSoFar = 0
    /\ provider = "anthropic"
    /\ callArg = NoCall
    /\ callOut = NoCall
    /\ pc = "prune_in"
    /\ only_n = None
    /\ response = <<>>
    /\ idx = 0
    /\ tool_result_content = <<>>
    /\ events = <<>>
    /\ rounds = 0
    /\ apiCalls = 0
    /\ toolRuns = 0
    /\ blocksSent = 0
    /\ sent = <<>>
    /\ nInitial = Len(messages)
    /\ retval = NotReturned

\* one call prune(history, keepArg, chunkArg)
PruneCall ==
    /\ pc \in {"prune_in", "prune_out"}
    /\ pruneCalls < MaxPrunes
    /\ before' = messages
    /\ messages' = _maybe_filter_to_n_most_recent_images(messages, IntArg(keepArg), chunkArg)
    /\ pruneCalls' = pruneCalls + 1
    /\ removedSoFar' = removedSoFar + (TotalImages(messages) - TotalImages(messages'))
    /\ pc' = "prune_out"
    /\ UNCHANGED <<keepArg, chunkArg>>
    /\ UNCHANGED <<loopVars, callVars>>

NextPrune == PruneCall

SpecPrune == InitPrune /\ [][NextPrune]_vars

----------------------------------------------------------------------------------------------------------------------------------------
(* SpecResult: _make_api_tool_result on tool results whose texts are of     *)
(* lengths around the maximum                                               *)

\* a text of n characters in which no two stretches of TruncateAt characters that
\* start less than seven apart read the same
Chr(i) == <<"a", "b", "c", "d", "e", "f", "g">>[(i % 7) + 1]

TextOfLen(n, shift) == [i \in 1..n |-> Chr(i + shift)]

TextLens == {0, 1, TruncateAt - 1, TruncateAt, TruncateAt + 1, TruncateAt + MaxOver}

ResultsToMake ==
    {ToolResult(TextOfLen(o, 0), TextOfLen(e, 3), img, sys) :
         o \in TextLens, e \in TextLens, img \in {0, 1}, sys \in {<<>>, <<"s">>}}

InitResult ==
    /\ callArg \in {[kind |-> "make", result |-> res, tool_use_id |-> 1] :
                        res \in ResultsToMake}
    /\ callOut = NoCall
    /\ provider = "anthropic"
    /\ pc = "make_in"
    /\ messages = <<>>
    /\ only_n = None
    /\ response = <<>>
    /\ idx = 0
    /\ tool_result_content = <<>>
    /\ events = <<>>
    /\ rounds = 0
    /\ apiCalls = 0
    /\ toolRuns = 0
    /\ blocksSent = 0
    /\ sent = <<>>
    /\ nInitial = 0
    /\ retval = NotReturned
    /\ before = <<>>
    /\ keepArg = 0
    /\ chunkArg = DefaultChunk
    /\ pruneCalls = 0
    /\ removedSoFar = 0

\* one call _make_api_tool_result(result, tool_use_id)
MakeResult ==
    /\ pc = "make_in"
    /\ callOut' = _make_api_tool_result(callArg.result, callArg.tool_use_id)
    /\ toolRuns' = toolRuns + 1
    /\ pc' = "make_out"
    /\ UNCHANGED <<messages, only_n, response, idx, tool_result_content, events, rounds,
                   apiCalls, blocksSent, sent, nInitial, retval, before, provider, callArg>>
    /\ UNCHANGED pruneVars

NextResult == MakeResult

SpecResult == InitResult /\ [][NextResult]_vars

----------------
(* Properties of the pruner, checked under SpecPrune *)

Max(a, b) == IF a >= b THEN a ELSE b

Min(a, b) == IF a <= b THEN a ELSE b

Pruned == pc = "prune_out"

\* C5: after prune(history, k, c) at most k + c - 1 images remain inside tool results
C5_AtMostKeepPlusChunk ==
    Pruned => TotalImages(messages) <= keepArg + chunkArg - 1

\* a call that removed images and left exactly k + c - 1 of them, c > 1
C5_Witness ==
    /\ Pruned
    /\ chunkArg > 1
    /\ TotalImages(before) > TotalImages(messages)
    /\ TotalImages(messages) = keepArg + chunkArg - 1

\* C6 as stated: after prune(history, k, c) at least k images remain inside tool results
C6_AtLeastKeep ==
    Pruned => TotalImages(messages) >= keepArg

\* C6 amended: after prune(history, k, c) at least k images remain when the history
\* held at least k of them, and all of them remain when it held fewer
C6_AtLeastKeepOrAll ==
    Pruned => TotalImages(messages) >= Min(keepArg, TotalImages(before))

\* a call that removed images and left exactly k > 0 of them
C6_Witness ==
    /\ Pruned
    /\ keepArg > 0
    /\ TotalImages(before) > keepArg
    /\ TotalImages(messages) = keepArg

\* C7: prune removes exactly n = excess - (excess mod c) images, excess = max(0, total - k),
\* and they are the n chronologically earliest tool-result images
C7_RemovesEarliest ==
    Pruned =>
        LET imgs == ResultImages(before)
            total == Len(imgs)
            excess == Max(0, total - keepArg)
            n == excess - (excess % chunkArg)
        IN  /\ Len(ResultImages(messages)) = total - n
            /\ ResultImages(messages) = SubSeq(imgs, n + 1, total)

\* 25 single-image results, images_to_keep = 5, chunk 10: 20 removed, the last 5 kept
C7_Witness ==
    /\ Pruned
    /\ pruneCalls = 1
    /\ keepArg = 5
    /\ chunkArg = 10
    /\ Len(ResultImages(before)) = 25
    /\ ResultImages(messages) = SubSeq(ResultImages(before), 21, 25)

\* C8: a prune call on a history with total_images <= images_to_keep changes nothing
C8_NoOpWithinLimit ==
    (Pruned /\ TotalImages(before) <= keepArg) => messages = before

\* a second call, after a first one that removed images down to the limit
C8_Witness ==
    /\ Pruned
    /\ pruneCalls = 2
    /\ removedSoFar > 0
    /\ TotalImages(before) > 0
    /\ TotalImages(before) <= keepArg
    /\ messages = before

----------------------------------------------------------------------------
(* Properties of the loop, checked under Spec *)

Requests(m) == SelectSeq(messages[m].content, IsToolUse)

Results(m) == SelectSeq(messages[m].content, IsToolResult)

RequestIds(blocks) == [i \in 1..Len(blocks) |-> blocks[i].id]

ResultIds(blocks) == [j \in 1..Len(blocks) |-> blocks[j].tool_use_id]

IsToolEvent(e) == e.ev = "tool_output_callback"

IsRunEvent(e) == e.ev \in {"run", "tool_output_callback"}

RoundAppended == pc = "prune" /\ rounds > 0

AllBlocksVisited == pc = "block" /\ idx > Len(response)

\* C1: every request id of an assistant message the loop appended has exactly one result
\* with that id in the user message right after it, that user message holds no result
\* of an id not requested there, and only a round still running its tools ends the
\* history with unanswered requests
C1_RequestsAnswered ==
    \A m \in (nInitial + 1)..Len(messages) :
        /\ (messages[m].role = "assistant" /\ Requests(m) # <<>>) =>
               IF m = Len(messages)
               THEN pc \in {"block", "run"}
               ELSE /\ messages[m + 1].role = "user"
                    /\ \A i \in 1..Len(Requests(m)) :
                           Cardinality({j \in 1..Len(Results(m + 1)) :
                               Results(m + 1)[j].tool_use_id = Requests(m)[i].id}) = 1
                    /\ \A j \in 1..Len(Results(m + 1)) :
                           \E i \in 1..Len(Requests(m)) :
                               Requests(m)[i].id = Results(m + 1)[j].tool_use_id
        /\ messages[m].role = "user" =>
               /\ m - 1 > nInitial
               /\ messages[m - 1].role = "assistant"
               /\ Requests(m - 1) # <<>>
               /\ Len(Results(m)) = Len(messages[m].content)

\* a second round was started after a reply with two requests was answered
C1_Witness ==
    /\ pc = "call"
    /\ rounds = 2
    /\ Len(Requests(Len(messages) - 1)) = 2
    /\ Len(Results(Len(messages))) = 2

\* C2: the run returns exactly when the reply of the round holds no tool_use block; it
\* then has appended only the assistant message, returns the history and calls nothing
\* more; with a tool_use block in the reply it does not return and goes round again
C2_ReturnsIffNoRequests ==
    /\ [][ /\ AllBlocksVisited =>
                 /\ (pc' = "done") <=> (SelectSeq(response, IsToolUse) = <<>>)
                 /\ pc' = "done" =>
                        /\ messages' = messages
                        /\ messages[Len(messages)] = Message("assistant", response)
                        /\ retval' = Returned(messages)
                 /\ pc' # "done" => (pc' = "prune" /\ ~retval'.returned)
           /\ pc' = "done" => (pc = "done" \/ AllBlocksVisited)
           /\ retval'.returned => pc' = "done"
           /\ pc = "done" => UNCHANGED <<messages, apiCalls, toolRuns>>
           /\ pc = "prune" => (pc' = "call" /\ rounds' = rounds + 1)
           /\ pc = "call" => apiCalls' = apiCalls + 1 ]_vars
    /\ [](pc = "call" => (ENABLED CallOk \/ ENABLED CallVenice))

\* the run returned in its second round, after a round whose tool came back empty
C2_Witness ==
    /\ pc = "done"
    /\ rounds = 2
    /\ retval = Returned(messages)
    /\ Results(Len(messages) - 1) # <<>>
    /\ Results(Len(messages) - 1)[1].content = ListContent(<<>>)

\* the text of a failed tool run as the model is shown it (texts within the maximum)
ShownErrorText(result) ==
    IF result.system = <<>>
    THEN result.error
    ELSE SystemOpen \o result.system \o SystemClose \o result.error

\* C3: a tool run that comes back with error text for request id a puts a result with
\* tool_use_id a, is_error true and that text into the next user message, and the loop
\* goes round again: a run never returns out of a round in which a tool ran
C3_ToolErrorFedBack ==
    LET evs == SelectSeq(events, IsToolEvent)
    IN  /\ RoundAppended =>
               LET res == messages[Len(messages)].content
               IN  /\ messages[Len(messages)].role = "user"
                   /\ ~retval.returned
                   /\ \A k \in 1..Len(evs) :
                          evs[k].result.error # <<>> =>
                              /\ k <= Len(res)
                              /\ evs[k].id = response[evs[k].i].id
                              /\ res[k].type = "tool_result"
                              /\ res[k].tool_use_id = evs[k].id
                              /\ res[k].is_error
                              /\ res[k].content = StrContent(ShownErrorText(evs[k].result))
        /\ pc = "call" => (ENABLED CallOk \/ ENABLED CallVenice)
        /\ pc \in {"done", "raised"} =>
               (apiCalls = rounds /\ (pc = "done" => evs = <<>>))

\* a provider call was issued after a round whose tool failed with "e"
C3_Witness ==
    /\ pc = "block"
    /\ rounds = 2
    /\ apiCalls = 2
    /\ Results(Len(messages) - 1) # <<>>
    /\ Results(Len(messages) - 1)[1].is_error
    /\ Results(Len(messages) - 1)[1].content = StrContent(<<"e">>)

\* tool results in the messages the loop appended
LoopResults ==
    SeqSum([m \in 1..Len(messages) |-> IF m > nInitial THEN Len(Results(m)) ELSE 0])

\* C4 as stated: when the provider call fails the partial history is returned to the caller
C4_PartialHistoryReturned ==
    pc = "raised" => retval = Returned(messages)

\* C4 amended: when the provider call fails the run ends at once, with one call per
\* round (no retry), no tool run and no message for that round, the messages of the
\* request left as they were in the caller's list, and nothing returned: the error
\* leaves sampling_loop instead
C4_FailureEndsRun ==
    pc = "raised" =>
        /\ ~retval.returned
        /\ messages = sent
        /\ Len(messages) = Len(before)
        /\ apiCalls = rounds
        /\ toolRuns = LoopResults
        /\ Len(messages) > nInitial => messages[Len(messages)].role = "user"
        /\ ~ENABLED Next

\* the call of the second round failed, with the first round's messages in the list
C4_Witness ==
    /\ pc = "raised"
    /\ rounds = 2
    /\ Len(messages) = nInitial + 2
    /\ toolRuns > 0

\* C9: whenever image_retention_limit is an integer k >= 0 the request of every round
\* holds at most k + 9 tool-result images
C9_RequestWithinLimit ==
    (apiCalls > 0 /\ only_n.set) =>
        Len(ResultImages(sent)) <= only_n.n + DefaultChunk - 1

\* C10: the results of the appended user message are in the order of the requests of
\* the reply, and the tools run one at a time in that order
C10_ResultsInRequestOrder ==
    LET runs == SelectSeq(events, IsRunEvent)
        done == idx - 1
        asked == SelectSeq(SubSeq(response, 1, done), IsToolUse)
    IN  /\ pc \in {"block", "run"} =>
               /\ ResultIds(tool_result_content) = RequestIds(asked)
               /\ Len(runs) = 2 * Len(asked)
               /\ \A k \in 1..Len(asked) :
                      /\ runs[2 * k - 1].ev = "run"
                      /\ runs[2 * k].ev = "tool_output_callback"
                      /\ runs[2 * k - 1].id = asked[k].id
                      /\ runs[2 * k].id = asked[k].id
        /\ RoundAppended =>
               ResultIds(messages[Len(messages)].content)
                   = RequestIds(Requests(Len(messages) - 1))

\* a user message with the two results of a reply with two requests
C10_Witness ==
    /\ RoundAppended
    /\ Len(messages[Len(messages)].content) = 2
    /\ Len(Requests(Len(messages) - 1)) = 2
    /\ Len(messages[Len(messages) - 1].content) = 3

----------------------------------------------------------------------------
(* Properties of the adapter, checked under SpecAdapter *)

Created == pc = "create_out"

\* the exchange failed on the network or came back with a status outside 2xx
TransportFailed(t) == t.net # "ok" \/ t.status \notin 200..299

\* the first message of the body, if the body is JSON with a choice that holds one
HasReplyMessage(t) ==
    /\ ~TransportFailed(t)
    /\ t.json
    /\ t.body.hasChoices
    /\ t.body.choices # <<>>
    /\ t.body.choices[1].hasMessage

ReplyMessage(t) == t.body.choices[1].message

\* the body is not JSON, or lacks `choices`, a first choice, `message` or `content`
Malformed(t) ==
    /\ ~TransportFailed(t)
    /\ IF HasReplyMessage(t) THEN ~ReplyMessage(t).hasContent ELSE TRUE

\* C11: a call whose exchange fails (network, status outside 2xx) or whose reply is
\* malformed (not JSON, missing or empty choices, missing message or content) fails
\* with the one error kind create raises itself; it returns no reply, no other error
C11_FailuresAreProviderErrors ==
    (Created /\ (TransportFailed(callArg.transport) \/ Malformed(callArg.transport)))
        => callOut.kind = "RuntimeError"

HasToolUse(blocks) == \E k \in 1..Len(blocks) : blocks[k].type = "tool_use"

HasToolResult(blocks) == \E k \in 1..Len(blocks) : blocks[k].type = "tool_result"

\* C12: a reply create returns holds exactly one block, a text block with the content
\* of the backend's message, and no tool_use or tool_result block, whatever the text
\* reads like and whatever blocks the messages of the request held
C12_ReplyIsOneTextBlock ==
    (Created /\ callOut.kind = "reply") =>
        /\ Len(callOut.content) = 1
        /\ callOut.content[1].type = "text"
        /\ ~HasToolUse(callOut.content)
        /\ ~HasToolResult(callOut.content)
        /\ callOut.content[1].text =
               (IF HasReplyMessage(callArg.transport)
                THEN ReplyMessage(callArg.transport).content
                ELSE <<>>)

\* a reply whose text reads like a function call, to a history with a tool_use block
\* and a tool_result
C12_Witness ==
    /\ Created
    /\ callOut.kind = "reply"
    /\ callOut.content = <<BetaTextBlock(<<"{", "}">>)>>
    /\ \E m \in 1..Len(messages) : HasToolUse(messages[m].content)
    /\ \E m \in 1..Len(messages) : HasToolResult(messages[m].content)

\* the reply of the backend carries a function call
HasFunctionCall(t) == HasReplyMessage(t) /\ ReplyMessage(t).tool_calls # <<>>

\* C13 as stated: a reply with a function call comes back from create with a tool_use
\* block whose id is not the backend's
C13_FunctionCallBecomesRequest ==
    (Created /\ HasFunctionCall(callArg.transport)) =>
        /\ callOut.kind = "reply"
        /\ \E k \in 1..Len(callOut.content) :
               /\ callOut.content[k].type = "tool_use"
               /\ callOut.content[k].id # ReplyMessage(callArg.transport).tool_calls[1].id

\* C13 amended: a reply with a function call comes back from create as one text block
\* with the content of the message (empty when it has none); the function call is
\* dropped and no tool_use block is made of it
C13_FunctionCallDropped ==
    (Created /\ HasFunctionCall(callArg.transport)) =>
        /\ callOut.kind = "reply"
        /\ callOut.content = <<BetaTextBlock(ReplyMessage(callArg.transport).content)>>
        /\ callOut.stop_reason = "end_turn"

\* a reply that is a function call and nothing else
C13_Witness ==
    /\ Created
    /\ HasFunctionCall(callArg.transport)
    /\ ~ReplyMessage(callArg.transport).hasContent
    /\ callOut.content = <<BetaTextBlock(<<>>)>>

\* the texts of the text blocks of a message, in order
TextsOf(blocks) ==
    Flatten([i \in 1..Len(blocks) |->
        IF blocks[i].type = "text" THEN blocks[i].text ELSE <<>>])

\* C14: with a system prompt, the request of create holds one message more than the
\* history: the system message first, then a message per history message, same order
\* and role, with the texts of its text blocks joined as content
C14_WireMessagesOfTextBlocks ==
    (Created /\ callArg.system # <<>>) =>
        /\ Len(sent) = Len(messages) + 1
        /\ sent[1] = WireMessage("system", callArg.system)
        /\ \A i \in 1..Len(messages) :
               /\ sent[i + 1].role = messages[i].role
               /\ sent[i + 1].content = TextsOf(messages[i].content)

\* as C14, for histories whose blocks are all dicts
C14_HoldsForDictBlocks ==
    (\A m \in 1..Len(messages) : \A i \in 1..Len(messages[m].content) :
         IsDict(messages[m].content[i]))
        => C14_WireMessagesOfTextBlocks

----------------------------------------------------------------------------
(* Properties of the tool result block, checked under SpecResult *)

Made == pc = "make_out"

\* whether the block shows a text, and the text it shows
ShowsText(block) ==
    IF block.is_error
    THEN TRUE
    ELSE \E k \in 1..Len(block.content.items) : block.content.items[k].type = "text"

ShownText(block) ==
    IF block.is_error
    THEN block.content.str
    ELSE LET texts == SelectSeq(block.content.items, LAMBDA b : b.type = "text")
         IN  IF texts = <<>> THEN <<>> ELSE texts[1].text

\* the text of the result that is to be shown: the error text if any, else the output
RawText(result) == IF result.error # <<>> THEN result.error ELSE result.output

\* the annotation as it is wrapped
Wrapped(result) ==
    IF result.system # <<>> THEN SystemOpen \o result.system \o SystemClose ELSE <<>>

\* C15: the text a tool_result shows is the text to show, prefix included, when that
\* is at most 4000 characters long, and else its first 4000 characters followed by
\* the marker; it is never longer than 4000 characters plus the marker
C15_TextsCutAtMaximum ==
    (Made /\ ShowsText(callOut)) =>
        LET full == Wrapped(callArg.result) \o RawText(callArg.result)
            shown == ShownText(callOut)
        IN  /\ Len(full) <= TruncateAt => shown = full
            /\ Len(full) > TruncateAt =>
                   shown = SubSeq(full, 1, TruncateAt) \o TruncatedMarker
            /\ Len(shown) <= TruncateAt + Len(TruncatedMarker)

\* an output of 5000 characters shown as its first 4000 and the marker
C15_Witness ==
    /\ Made
    /\ callArg.result.error = <<>>
    /\ callArg.result.system = <<>>
    /\ Len(callArg.result.output) = TruncateAt + MaxOver
    /\ Len(ShownText(callOut)) = TruncateAt + Len(TruncatedMarker)
    /\ ShownText(callOut) = SubSeq(callArg.result.output, 1, TruncateAt) \o TruncatedMarker

\* C17: the text a tool_result shows begins with the wrapped annotation of the result,
\* followed by the output text (no error) or the error text (is_error); a result
\* without annotation shows its text from the first character on
C17_AnnotationPrepended ==
    (Made /\ ShowsText(callOut)) =>
        LET result == callArg.result
            shown == ShownText(callOut)
            raw == IF callOut.is_error THEN result.error ELSE result.output
            n == Min(Len(Wrapped(result)) + Len(raw), TruncateAt)
        IN  /\ result.system # <<>> =>
                   /\ Len(shown) >= Len(SystemOpen) + Len(result.system) + Len(SystemClose)
                   /\ SubSeq(shown, 1, Len(SystemOpen)) = SystemOpen
                   /\ SubSeq(shown, Len(SystemOpen) + 1, Len(SystemOpen) + Len(result.system))
                          = result.system
                   /\ SubSeq(shown, Len(SystemOpen) + Len(result.system) + 1,
                             Len(Wrapped(result))) = SystemClose
            /\ SubSeq(shown, Len(Wrapped(result)) + 1, n)
                   = SubSeq(raw, 1, n - Len(Wrapped(result)))
            /\ Len(shown) >= n

\* an error text of one character shown behind the annotation "s"
C17_Witness ==
    /\ Made
    /\ callArg.result.system = <<"s">>
    /\ Len(callArg.result.error) = 1
    /\ callOut.is_error
    /\ callOut.content.str = SystemOpen \o <<"s">> \o SystemClose \o callArg.result.error

----------------------------------------------------------------------------
(* Properties of the callbacks, the history and the Venice provider, checked *)
(* under Spec                                                               *)

IsReplyEvent(e) == e.ev = "output_callback"

IsRunStart(e) == e.ev = "run"

\* the blocks of the reply the for loop of loop.py:202 has gone through
Visited == IF pc = "run" THEN idx ELSE Min(idx - 1, Len(response))

\* C16: in a round output_callback has fired once for each block of the reply gone
\* through, in the order of the reply; tool_output_callback has fired once for each
\* tool run, right behind it, with the result that run came back with, which is the
\* result collected, and with the id of the tool_use block; no other event has fired
C16_CallbacksOncePerBlockAndRun ==
    (apiCalls > 0 /\ pc # "raised" /\ pc # "call") =>
        LET shown == SelectSeq(events, IsReplyEvent)
            told == SelectSeq(events, IsToolEvent)
            ran == SelectSeq(events, IsRunStart)
        IN  /\ Len(shown) = Visited
            /\ \A k \in 1..Len(shown) : shown[k].i = k
            /\ Len(ran) = Len(tool_result_content)
            /\ Len(told) = Len(ran)
            /\ Len(ran) = Len(SelectSeq(SubSeq(response, 1, Visited), IsToolUse))
                              - (IF pc = "run" THEN 1 ELSE 0)
            /\ \A k \in 1..Len(told) :
                   /\ IsToolUse(response[told[k].i])
                   /\ told[k].id = response[told[k].i].id
                   /\ ran[k].i = told[k].i
                   /\ told[k].result = ran[k].result
                   /\ tool_result_content[k] = _make_api_tool_result(told[k].result, told[k].id)
            /\ \A p \in 1..Len(events) :
                   /\ events[p].ev \in {"output_callback", "run", "tool_output_callback"}
                   /\ IsRunStart(events[p]) =>
                          (p < Len(events) /\ IsToolEvent(events[p + 1]))
                   /\ IsToolEvent(events[p]) => (p > 1 /\ IsRunStart(events[p - 1]))

\* a round gone through a reply of three blocks whose first tool run failed
C16_Witness ==
    /\ RoundAppended
    /\ Len(response) = 3
    /\ Len(SelectSeq(events, IsReplyEvent)) = 3
    /\ Len(SelectSeq(events, IsToolEvent)) = 2
    /\ SelectSeq(events, IsToolEvent)[1].result.error # <<>>

\* a message with some images inside its tool results deleted and nothing else changed
RECURSIVE IsSubSeqOf(_, _)
IsSubSeqOf(a, b) ==
    IF a = <<>>
    THEN TRUE
    ELSE IF b = <<>>
         THEN FALSE
         ELSE IF Head(a) = Head(b)
              THEN IsSubSeqOf(Tail(a), Tail(b))
              ELSE IsSubSeqOf(a, Tail(b))

NotAnImage(b) == b.type # "image"

BlockKept(old, new) ==
    IF old.type = "tool_result"
    THEN /\ new.type = "tool_result"
         /\ new.tool_use_id = old.tool_use_id
         /\ new.is_error = old.is_error
         /\ new.content.isList = old.content.isList
         /\ new.content.str = old.content.str
         /\ IsSubSeqOf(new.content.items, old.content.items)
         /\ SelectSeq(new.content.items, NotAnImage) = SelectSeq(old.content.items, NotAnImage)
    ELSE new = old

MessageKept(old, new) ==
    /\ new.role = old.role
    /\ Len(new.content) = Len(old.content)
    /\ \A i \in 1..Len(old.content) : BlockKept(old.content[i], new.content[i])

\* C18: a step of the run leaves every message of the history in place, with its role
\* and its blocks, but for images inside tool results, which only the prune step
\* deletes; it appends at most one message, the assistant message of the reply or the
\* user message of the results, so that the appended messages alternate, at most two
\* a round
C18_HistoryAppendOnly ==
    /\ [][ /\ Len(messages') \in {Len(messages), Len(messages) + 1}
           /\ \A m \in 1..Len(messages) : MessageKept(messages[m], messages'[m])
           /\ pc # "prune" => SubSeq(messages', 1, Len(messages)) = messages
           /\ pc = "prune" => Len(messages') = Len(messages)
           /\ Len(messages') > Len(messages) =>
                  \/ pc = "call" /\ messages'[Len(messages')].role = "assistant"
                  \/ /\ pc = "block"
                     /\ pc' = "prune"
                     /\ messages'[Len(messages')].role = "user"
                     /\ \A i \in 1..Len(messages'[Len(messages')].content) :
                            messages'[Len(messages')].content[i].type = "tool_result" ]_vars
    /\ [](/\ Len(messages) - nInitial <= 2 * rounds
          /\ \A m \in (nInitial + 1)..Len(messages) :
                 messages[m].role = (IF (m - nInitial) % 2 = 1 THEN "assistant" ELSE "user"))

\* the prune step of the second round deleted images of tool results and left the
\* picture of the prompt where it was
C18_Witness ==
    /\ pc = "call"
    /\ rounds = 2
    /\ Len(messages) = nInitial + 2
    /\ Len(ResultImages(messages)) < Len(ResultImages(before))
    /\ messages[1] = MsgOfKind("UI", 0)
    /\ before[1] = MsgOfKind("UI", 0)

\* the output_callback events in front of position p of the events of the round
ShownBefore(p) == SelectSeq(SubSeq(events, 1, p - 1), IsReplyEvent)

\* C19 as stated: when a tool run of a round starts, output_callback has fired for
\* every block of the reply
C19_AllShownBeforeFirstRun ==
    \A p \in 1..Len(events) :
        IsRunStart(events[p]) => Len(ShownBefore(p)) = Len(response)

\* C19 amended: when the tool run of a tool_use block starts, output_callback has
\* fired for that block and every block before it and for none behind it; the blocks
\* behind it are shown after the run and its tool_output_callback
C19_ShownUpToRequestBeforeRun ==
    \A p \in 1..Len(events) :
        IsRunStart(events[p]) =>
            /\ Len(ShownBefore(p)) = events[p].i
            /\ \A k \in 1..Len(ShownBefore(p)) : ShownBefore(p)[k].i = k
            /\ IsReplyEvent(events[p - 1]) /\ events[p - 1].i = events[p].i
            /\ \A q \in (p + 1)..Len(events) :
                   IsReplyEvent(events[q]) => (events[q].i > events[p].i /\ q > p + 1)

\* a reply whose text block comes behind its tool_use block: the text was shown when
\* the tool had run
C19_Witness ==
    /\ pc = "block"
    /\ Len(response) = 2
    /\ IsToolUse(response[1])
    /\ ~IsToolUse(response[2])
    /\ Len(events) = 4
    /\ IsRunStart(events[2])
    /\ IsReplyEvent(events[4])

\* C20: a run with the Venice provider never comes to run a tool or to a second
\* round: the reply holds no tool_use block, and when all its blocks are visited the
\* run returns, with one provider call made and the assistant message appended
C20_VeniceRunIsOneRound ==
    provider = "venice" =>
        /\ pc # "run"
        /\ toolRuns = 0
        /\ rounds <= 1
        /\ apiCalls <= 1
        /\ pc \in {"block", "done"} =>
               /\ apiCalls = 1
               /\ ~HasToolUse(response)
               /\ tool_result_content = <<>>
               /\ Len(messages) = nInitial + 1
               /\ messages[Len(messages)] = Message("assistant", response)
        /\ pc = "done" => retval = Returned(messages)
        /\ pc = "raised" => (apiCalls = 1 /\ Len(messages) = nInitial)

\* a Venice run that returned with a reply whose text reads like a function call
C20_Witness ==
    /\ provider = "venice"
    /\ pc = "done"
    /\ apiCalls = 1
    /\ nInitial > 1
    /\ response = <<BetaTextBlock(<<"{", "}">>)>>
    /\ retval = Returned(messages)

\* C21: the tool_result made of a run that came back with error text has is_error set
\* and the error text as its whole content, without the output text and the image of
\* the run; is_error is set exactly for the runs with error text; and every image
\* inside a tool_result of the history is in one whose is_error is not set
C21_ErrorResultCarriesErrorOnly ==
    /\ (apiCalls > 0 /\ pc # "raised" /\ pc # "call") =>
           LET told == SelectSeq(events, IsToolEvent)
           IN  \A k \in 1..Len(told) :
                   /\ k <= Len(tool_result_content)
                   /\ tool_result_content[k].is_error <=> (told[k].result.error # <<>>)
                   /\ told[k].result.error # <<>> =>
                          tool_result_content[k].content
                              = StrContent(ShownErrorText(told[k].result))
    /\ \A m \in 1..Len(messages) :
           \A i \in 1..Len(Results(m)) :
               /\ Results(m)[i].is_error =>
                      (~Results(m)[i].content.isList /\ Results(m)[i].content.items = <<>>)
               /\ ImagesOf(Results(m)[i]) # <<>> => ~Results(m)[i].is_error

\* a run that came back with output, error text and a screenshot, answered in the
\* history by a result with is_error and the error text alone
C21_Witness ==
    /\ RoundAppended
    /\ SelectSeq(events, IsToolEvent)[1].result.error # <<>>
    /\ SelectSeq(events, IsToolEvent)[1].result.output # <<>>
    /\ SelectSeq(events, IsToolEvent)[1].result.base64_image # 0
    /\ messages[Len(messages)].content[1].is_error
    /\ messages[Len(messages)].content[1].content
           = StrContent(ShownErrorText(SelectSeq(events, IsToolEvent)[1].result))

====
